---- MODULE Spec2Model ----
(***************************************************************************)
(* Preprocessing of arch/arm/mach-GM/include/mach/platform-GM8181/vmalloc.h *)
(*                                                                         *)
(* The header has no run-time behaviour: what it does, it does to the      *)
(* preprocessor's symbol table of the translation unit that includes it.   *)
(* The state is that symbol table; the operations are one inclusion of the *)
(* header (lines 27-34, taken as a whole) and the directives of the        *)
(* translation unit around it (#define / #undef of macros the header       *)
(* tests).                                                                 *)
(*                                                                         *)
(* A macro body is the hexadecimal literal it is defined as, kept as the   *)
(* sequence of its hexadecimal digits (0xe0000000 is <<14,0,0,0,0,0,0,0>>);*)
(* the empty sequence is the empty replacement list.  Values of 2^31 and   *)
(* above are handled in two 16-bit halves.                                 *)
(***************************************************************************)
EXTENDS Integers, Sequences, FiniteSets, TLC

\* Largest number of inclusions of the header followed in one translation unit.
MaxIncludes == 3

\* line 27/28: the include guard.
GUARD == "__GM_PLATFORM_VMALLOC_HEADER__"

\* line 30/31: the macro the header provides.
VMALLOC_END == "VMALLOC_END"

\* A macro of the translation unit that the header does not mention.
OTHER_MACRO == "PAGE_OFFSET"

\* Macros the translation unit itself defines or undefines.
UnitNames == {VMALLOC_END, OTHER_MACRO}

\* Bodies the translation unit gives its macros: 0xd0000000, 0xe0000000
\* (textually the header's default) and 0xff000000.
UnitBodies ==
    { <<13, 0, 0, 0, 0, 0, 0, 0>>,
      <<14, 0, 0, 0, 0, 0, 0, 0>>,
      <<15, 15, 0, 0, 0, 0, 0, 0>> }

\* Plausible slips in the literal of line 31.
DefaultDroppedZero == <<14, 0, 0, 0, 0, 0, 0>>
DefaultExtraZero   == <<14, 0, 0, 0, 0, 0, 0, 0, 0>>
DefaultBelowHalf   == <<6, 0, 0, 0, 0, 0, 0, 0>>

\* line 31: the replacement list 0xe0000000.
VMALLOC_END_DEFAULT == <<14, 0, 0, 0, 0, 0, 0, 0>>

----------------------------------------------------------------------------
(* Value of a hexadecimal literal.                                          *)

RECURSIVE HexVal(_)
HexVal(ds) ==
    IF ds = << >> THEN 0
    ELSE 16 * HexVal(SubSeq(ds, 1, Len(ds) - 1)) + ds[Len(ds)]

\* The literal's value divided by 2^16 (all digits but the last four).
HighHalf(ds) == HexVal(SubSeq(ds, 1, Len(ds) - 4))

\* The literal's value modulo 2^16 (the last four digits).
LowHalf(ds) ==
    HexVal(SubSeq(ds, IF Len(ds) > 4 THEN Len(ds) - 3 ELSE 1, Len(ds)))

\* The value as <<high, low>> halves, high unbounded.
Halves(ds) == <<HighHalf(ds), LowHalf(ds)>>

\* The value stored in a 32-bit unsigned object: the value modulo 2^32.
AsUnsigned32(ds) == <<HighHalf(ds) % 65536, LowHalf(ds)>>

\* The same 32 bits read as a two's-complement signed integer.
AsSigned32(ds) ==
    LET h == HighHalf(ds) % 65536
    IN  (IF h >= 32768 THEN h - 65536 ELSE h) * 65536 + LowHalf(ds)

\* value >= 2^31
AtLeast2Pow31(ds) == HighHalf(ds) >= 32768

\* value mod 4096 (4096 divides 2^16)
ModPage(ds) == LowHalf(ds) % 4096

----------------------------------------------------------------------------
(* The preprocessor's directives on a symbol table (a function from the    *)
(* defined names to their bodies).                                         *)

Defined(tab, name) == name \in DOMAIN tab

\* #define name body.  Defining a macro again with a different body is a
\* redefinition diagnostic; the new body replaces the old one.
Define(tab, name, body) ==
    [ tab  |-> [n \in DOMAIN tab \cup {name} |-> IF n = name THEN body ELSE tab[n]],
      diag |-> IF Defined(tab, name) /\ tab[name] # body THEN 1 ELSE 0 ]

\* #undef name
Undef(tab, name) == [n \in DOMAIN tab \ {name} |-> tab[n]]

----------------------------------------------------------------------------
(* Variants of the header with one directive misplaced or missing.         *)

\* Lines 30 and 32 missing: VMALLOC_END is defined unconditionally.
HeaderNoIfndef(tab) ==
    IF Defined(tab, GUARD)
    THEN [tab |-> tab, diag |-> 0, defs |-> 0]
    ELSE LET g == Define(tab, GUARD, << >>)
             d == Define(g.tab, VMALLOC_END, VMALLOC_END_DEFAULT)
         IN  [tab |-> d.tab, diag |-> g.diag + d.diag, defs |-> 1]

\* Lines 27 and 34 missing: no include guard test.
HeaderNoGuardTest(tab) ==
    LET g == Define(tab, GUARD, << >>)
    IN  IF Defined(g.tab, VMALLOC_END)
        THEN [tab |-> g.tab, diag |-> g.diag, defs |-> 0]
        ELSE LET d == Define(g.tab, VMALLOC_END, VMALLOC_END_DEFAULT)
             IN  [tab |-> d.tab, diag |-> g.diag + d.diag, defs |-> 1]

\* Line 28 moved inside the #ifndef VMALLOC_END block.
HeaderGuardInside(tab) ==
    IF Defined(tab, GUARD) \/ Defined(tab, VMALLOC_END)
    THEN [tab |-> tab, diag |-> 0, defs |-> 0]
    ELSE LET g == Define(tab, GUARD, << >>)
             d == Define(g.tab, VMALLOC_END, VMALLOC_END_DEFAULT)
         IN  [tab |-> d.tab, diag |-> g.diag + d.diag, defs |-> 1]

\* An extra #undef of another macro after line 28.
HeaderUndefOther(tab) ==
    IF Defined(tab, GUARD)
    THEN [tab |-> tab, diag |-> 0, defs |-> 0]
    ELSE LET g == Define(Undef(tab, OTHER_MACRO), GUARD, << >>)
         IN  IF Defined(g.tab, VMALLOC_END)
             THEN [tab |-> g.tab, diag |-> g.diag, defs |-> 0]
             ELSE LET d == Define(g.tab, VMALLOC_END, VMALLOC_END_DEFAULT)
                  IN  [tab |-> d.tab, diag |-> g.diag + d.diag, defs |-> 1]

\* Lines 27-34: one pass of the preprocessor over the header.  The result is
\* the new symbol table, the redefinition diagnostics raised, and how often
\* line 31 was executed.
ProcessHeader(tab) ==
    IF Defined(tab, GUARD)                                    \* line 27
    THEN [tab |-> tab, diag |-> 0, defs |-> 0]                \* skip to line 34
    ELSE LET g == Define(tab, GUARD, << >>)                   \* line 28
         IN  IF Defined(g.tab, VMALLOC_END)                   \* line 30
             THEN [tab |-> g.tab, diag |-> g.diag, defs |-> 0]
             ELSE LET d == Define(g.tab, VMALLOC_END, VMALLOC_END_DEFAULT) \* line 31
                  IN  [tab |-> d.tab, diag |-> g.diag + d.diag, defs |-> 1]

----------------------------------------------------------------------------
VARIABLES
    symtab,      \* the symbol table: defined macro names -> bodies
    includes,    \* inclusions of the header so far
    diag,        \* redefinition diagnostics raised inside the header so far
    defCount,    \* executions of line 31 so far
    last,        \* the latest directive: its kind, the table before it, and
                 \* what the header raised / defined in it
    afterFirst,  \* the symbol table right after the first inclusion
    edited       \* the unit changed a macro after the first inclusion

vars == <<symtab, includes, diag, defCount, last, afterFirst, edited>>

\* Symbol tables a translation unit may reach the first directive with: the
\* guard may already be defined (command line, or a sibling platform header
\* using the same guard name), and so may the unit's other macro.
InitialTables ==
    { [n \in S |-> IF n = GUARD THEN << >> ELSE <<12, 0, 0, 0, 0, 0, 0, 0>>] :
        S \in SUBSET {GUARD, OTHER_MACRO} }

Init ==
    /\ symtab \in InitialTables
    /\ includes = 0
    /\ diag = 0
    /\ defCount = 0
    /\ last = [op |-> "none", tab |-> symtab, diag |-> 0, defs |-> 0]
    /\ afterFirst = symtab
    /\ edited = FALSE

\* #include of the header.
Include ==
    /\ includes < MaxIncludes
    /\ LET r == ProcessHeader(symtab)
       IN  /\ symtab' = r.tab
           /\ diag' = diag + r.diag
           /\ defCount' = defCount + r.defs
           /\ last' = [op |-> "include", tab |-> symtab, diag |-> r.diag, defs |-> r.defs]
           /\ afterFirst' = IF includes = 0 THEN r.tab ELSE afterFirst
    /\ includes' = includes + 1
    /\ UNCHANGED edited

\* The unit (or a header processed earlier) defines one of its macros.
UnitDefine(name, body) ==
    /\ ~Defined(symtab, name)
    /\ symtab' = Define(symtab, name, body).tab
    /\ last' = [op |-> "define", tab |-> symtab, diag |-> 0, defs |-> 0]
    /\ edited' = (edited \/ includes > 0)
    /\ UNCHANGED <<includes, diag, defCount, afterFirst>>

\* The unit undefines one of its macros.
UnitUndef(name) ==
    /\ Defined(symtab, name)
    /\ symtab' = Undef(symtab, name)
    /\ last' = [op |-> "undef", tab |-> symtab, diag |-> 0, defs |-> 0]
    /\ edited' = (edited \/ includes > 0)
    /\ UNCHANGED <<includes, diag, defCount, afterFirst>>

Next ==
    \/ Include
    \/ \E name \in UnitNames, body \in UnitBodies : UnitDefine(name, body)
    \/ \E name \in UnitNames : UnitUndef(name)

Spec == Init /\ [][Next]_vars

TypeOK ==
    /\ DOMAIN symtab \subseteq {GUARD, VMALLOC_END, OTHER_MACRO}
    /\ includes \in 0..MaxIncludes
    /\ diag \in Nat
    /\ defCount \in Nat
    /\ last.op \in {"none", "define", "undef", "include"}
    /\ edited \in BOOLEAN

\* The state right after an inclusion of the header.
JustIncluded == last.op = "include"

----------------------------------------------------------------------------
(* Properties.                                                             *)

\* The literal 0xe0000000 as the properties speak of it.
E0000000 == <<14, 0, 0, 0, 0, 0, 0, 0>>

\* C1, as stated: after any inclusion that found VMALLOC_END undefined,
\* VMALLOC_END is defined and expands to exactly 0xe0000000.
C1_AsStated ==
    (JustIncluded /\ ~Defined(last.tab, VMALLOC_END))
        => (Defined(symtab, VMALLOC_END) /\ symtab[VMALLOC_END] = E0000000)

\* C1, amended: after an inclusion that found neither VMALLOC_END nor the
\* include guard defined, VMALLOC_END is defined and expands to exactly
\* 0xe0000000.
C1_DefaultSupplied ==
    (JustIncluded /\ ~Defined(last.tab, VMALLOC_END) /\ ~Defined(last.tab, GUARD))
        => (Defined(symtab, VMALLOC_END) /\ symtab[VMALLOC_END] = E0000000)

C1_Witness ==
    /\ JustIncluded
    /\ ~Defined(last.tab, VMALLOC_END)
    /\ ~Defined(last.tab, GUARD)
    /\ last.defs = 1
    /\ Defined(symtab, VMALLOC_END)

\* C2: an inclusion that finds VMALLOC_END defined as V leaves it defined as
\* V (so not as 0xe0000000 when V is another value), does not execute the
\* header's #define, and raises no diagnostic.
C2_OverrideWins ==
    (JustIncluded /\ Defined(last.tab, VMALLOC_END))
        => /\ Defined(symtab, VMALLOC_END)
           /\ symtab[VMALLOC_END] = last.tab[VMALLOC_END]
           /\ (last.tab[VMALLOC_END] # E0000000 => symtab[VMALLOC_END] # E0000000)
           /\ last.defs = 0
           /\ last.diag = 0

C2_Witness ==
    /\ JustIncluded
    /\ ~Defined(last.tab, GUARD)
    /\ Defined(last.tab, VMALLOC_END)
    /\ last.tab[VMALLOC_END] = <<13, 0, 0, 0, 0, 0, 0, 0>>
    /\ symtab[VMALLOC_END] = <<13, 0, 0, 0, 0, 0, 0, 0>>

\* C3: no inclusion raises a redefinition diagnostic; every inclusion after
\* the first is a no-op, so that (the unit itself not touching its macros in
\* between) the symbol table after the n-th inclusion, n >= 2, is the one
\* after the first; and line 31 is executed at most once.
C3_GuardIdempotent ==
    /\ diag = 0
    /\ defCount <= 1
    /\ (JustIncluded /\ includes >= 2)
          => (symtab = last.tab /\ last.diag = 0 /\ last.defs = 0)
    /\ (includes >= 2 /\ ~edited) => symtab = afterFirst

C3_Witness ==
    /\ JustIncluded
    /\ includes >= 2
    /\ ~edited
    /\ defCount = 1
    /\ symtab = afterFirst

\* C4: the default the header supplies is 0 <= v < 2^32, and v modulo 2^32
\* is v itself.
C4_FitsUnsigned32 ==
    (JustIncluded /\ last.defs = 1)
        => /\ Defined(symtab, VMALLOC_END)
           /\ HighHalf(symtab[VMALLOC_END]) >= 0
           /\ LowHalf(symtab[VMALLOC_END]) >= 0
           /\ HighHalf(symtab[VMALLOC_END]) < 65536
           /\ AsUnsigned32(symtab[VMALLOC_END]) = Halves(symtab[VMALLOC_END])

C4_Witness ==
    /\ JustIncluded
    /\ last.defs = 1
    /\ Halves(symtab[VMALLOC_END]) = <<57344, 0>>

\* C5, as stated: an inclusion adds or changes no macro other than
\* VMALLOC_END.
C5_AsStated ==
    JustIncluded
        => \A n \in (DOMAIN symtab \cup DOMAIN last.tab) \ {VMALLOC_END} :
              /\ Defined(symtab, n)
              /\ Defined(last.tab, n)
              /\ symtab[n] = last.tab[n]

\* C5, amended: an inclusion adds or changes no macro other than
\* VMALLOC_END and the include guard.
C5_OnlyVmallocEndAndGuard ==
    JustIncluded
        => \A n \in (DOMAIN symtab \cup DOMAIN last.tab) \ {VMALLOC_END, GUARD} :
              /\ Defined(symtab, n)
              /\ Defined(last.tab, n)
              /\ symtab[n] = last.tab[n]

C5_Witness ==
    /\ JustIncluded
    /\ ~Defined(last.tab, GUARD)
    /\ Defined(last.tab, OTHER_MACRO)
    /\ last.defs = 1
    /\ Defined(symtab, OTHER_MACRO)
    /\ Defined(symtab, GUARD)

\* C6: the header defines VMALLOC_END at most once, and an inclusion that
\* finds VMALLOC_END with a value neither changes nor removes that value.
C6_NeverMutated ==
    /\ [](defCount <= 1)
    /\ [][ (includes' = includes + 1 /\ Defined(symtab, VMALLOC_END))
              => (Defined(symtab', VMALLOC_END)
                  /\ symtab'[VMALLOC_END] = symtab[VMALLOC_END]) ]_vars

C6_Witness ==
    /\ JustIncluded
    /\ includes >= 2
    /\ edited
    /\ defCount = 1
    /\ Defined(last.tab, VMALLOC_END)
    /\ last.tab[VMALLOC_END] = <<15, 15, 0, 0, 0, 0, 0, 0>>
    /\ symtab[VMALLOC_END] = last.tab[VMALLOC_END]

\* C7: after an inclusion that found the guard undefined, the guard is
\* defined (with an empty body), on the default path and on the override
\* path alike.
C7_GuardSet ==
    (JustIncluded /\ ~Defined(last.tab, GUARD))
        => (Defined(symtab, GUARD) /\ symtab[GUARD] = << >>)

C7_Witness ==
    /\ JustIncluded
    /\ ~Defined(last.tab, GUARD)
    /\ Defined(last.tab, VMALLOC_END)
    /\ last.defs = 0
    /\ Defined(symtab, GUARD)

\* C8: an inclusion that finds the guard defined changes nothing; if
\* VMALLOC_END is undefined then, it stays undefined.
C8_GuardedNoOp ==
    (JustIncluded /\ Defined(last.tab, GUARD))
        => /\ symtab = last.tab
           /\ last.defs = 0
           /\ last.diag = 0
           /\ (~Defined(last.tab, VMALLOC_END) => ~Defined(symtab, VMALLOC_END))

C8_Witness ==
    /\ JustIncluded
    /\ Defined(last.tab, GUARD)
    /\ ~Defined(last.tab, VMALLOC_END)
    /\ ~Defined(symtab, VMALLOC_END)
    /\ defCount = 1

\* C9: the default the header supplies is at least 2^31 (negative when its
\* 32 bits are read as a signed integer) and a multiple of 4096.
C9_HighAndPageAligned ==
    (JustIncluded /\ last.defs = 1)
        => /\ AtLeast2Pow31(symtab[VMALLOC_END])
           /\ AsSigned32(symtab[VMALLOC_END]) < 0
           /\ ModPage(symtab[VMALLOC_END]) = 0

C9_Witness ==
    /\ JustIncluded
    /\ last.defs = 1
    /\ AsSigned32(symtab[VMALLOC_END]) = -536870912
    /\ ModPage(symtab[VMALLOC_END]) = 0

====
